---- MODULE Spec2Model ----
(***************************************************************************)
(* A model of script.js, the ear-training game: the phrase generator       *)
(* (generateMeasure, generateSequence), the distractor synthesizer         *)
(* (makeDistractors, over a heap of event objects so that aliasing between *)
(* the canonical phrase and its copies is visible) and the round lifecycle *)
(* (newRound, handleAnswer, the 900 ms timer, the navigation buttons).     *)
(*                                                                         *)
(* Beats are counted in sixteenth notes (0.25 beat = 1), so that the code's *)
(* 4, 2, 1 and 0.5 beats are the integers 16, 8, 4 and 2.                  *)
(***************************************************************************)
EXTENDS Integers, Sequences, FiniteSets, TLC

VARIABLES
    \* one call of generateMeasure()
    beatsLeft, elements, gpc,
    \* one call of makeDistractors(baseMeasures)
    heap, baseMeasures, base0, variants, pc, k, pi, pj,
    \* the page: state, the screen shown, timers and suspended handlers
    state, screen, cards, timers, pending, roundNo, answered

genVars == <<beatsLeft, elements, gpc>>
distVars == <<heap, baseMeasures, base0, variants, pc, k, pi, pj>>
uiVars == <<state, screen, cards, timers, pending, roundNo, answered>>
vars == <<beatsLeft, elements, gpc, heap, baseMeasures, base0, variants, pc, k, pi, pj,
          state, screen, cards, timers, pending, roundNo, answered>>

----------------------------------------------------------------------------
(* Bounds of the model *)

\* how many of the scale's pitches rand(PITCHES) may select in the stepwise
\* run of generateMeasure
MaxGenPitches == 2
\* how many of the scale's pitches the canonical phrases handed to
\* makeDistractors are written with
MaxPhrasePitches == 3
\* the most events a canonical phrase handed to makeDistractors holds
MaxPhraseEvents == 3
\* the pitches of the phrases newRound generates on the page, and the events
\* such a phrase may hold beyond one for each of its measures
MaxRoundPitches == 1
MaxRoundExtraEvents == 0
\* the rounds begun, or set to begin by a timer or a suspended start handler
MaxRounds == 3
\* the start handlers suspended in await ensureAudio() at one time
MaxSuspended == 1

----------------------------------------------------------------------------
(* Constants of the program *)

WHOLE == 16
HALF == 8
QUARTER == 4
EIGHTH == 2
\* the capacity of a 4/4 measure: let beatsLeft = 4
MEASURE == 16

PITCHES == <<"c4", "d4", "e4", "f4", "g4", "a4", "b4", "c5">>

\* String.prototype.toUpperCase / toLowerCase on the pitch labels
UPPER == <<"C4", "D4", "E4", "F4", "G4", "A4", "B4", "C5">>
toUpperCase(s) == IF \E n \in 1..Len(PITCHES) : PITCHES[n] = s
                  THEN UPPER[CHOOSE n \in 1..Len(PITCHES) : PITCHES[n] = s]
                  ELSE s
toLowerCase(s) == IF \E n \in 1..Len(UPPER) : UPPER[n] = s
                  THEN PITCHES[CHOOSE n \in 1..Len(UPPER) : UPPER[n] = s]
                  ELSE s
\* Array.prototype.indexOf, 1-based; 0 stands for the code's -1
indexOf(arr, x) == IF \E n \in 1..Len(arr) : arr[n] = x
                   THEN CHOOSE n \in 1..Len(arr) : arr[n] = x /\ \A m \in 1..(n-1) : arr[m] # x
                   ELSE 0

DURATIONS == <<[name |-> "w", beats |-> WHOLE],
               [name |-> "h", beats |-> HALF],
               [name |-> "q", beats |-> QUARTER],
               [name |-> "8", beats |-> EIGHTH]>>

NOTE_OR_REST == <<"note", "note", "note", "rest">>

\* the value of a property an object does not have (a rest has no pitch)
Undefined == "undefined"

Range(s) == {s[n] : n \in 1..Len(s)}

----------------------------------------------------------------------------
(* Randomness: every value Math.random() can return is a possible outcome *)

\* rand(arr): arr[floor(random * length)], any element
rand(arr) == Range(arr)

\* rand(PITCHES) as generateMeasure draws it; the model lets the draw fall
\* on `count` of the eight pitches, taken from both ends of the scale
PitchChoices(count) ==
    {PITCHES[n] : n \in {m \in 1..Len(PITCHES) :
                           \/ m <= (count + 1) \div 2
                           \/ m > Len(PITCHES) - (count \div 2)}}

\* choiceWeighted(weights): r = random * total runs over [0, total), and the
\* item at which the running difference reaches 0 or less is returned; every
\* item of positive weight is returned for some r
choiceWeighted(weights) == {x.item : x \in {y \in Range(weights) : y.w > 0}}

----------------------------------------------------------------------------
(* generateMeasure *)

RECURSIVE SumBeats(_)
SumBeats(evs) == IF evs = <<>> THEN 0 ELSE evs[1].beats + SumBeats(Tail(evs))

\* a slip a filter can have: every duration is kept, fitting or not
ChoicesUnfiltered(left) == DURATIONS

\* const choices = DURATIONS.filter(d => d.beats <= beatsLeft)
Choices(left) == LET fits(d) == d.beats <= left IN SelectSeq(DURATIONS, fits)

\* weighted = choices.map(d => ({item: d, w: ...}))
Weighted(choices) ==
    [n \in 1..Len(choices) |->
        [item |-> choices[n],
         w |-> IF choices[n].name = "w" THEN 1
               ELSE IF choices[n].name = "8" THEN 2 ELSE 3]]

\* a slip the overrides can have: the previous event is not looked at
OverrideTypeFirstLastOnly(type, elems, left, d) ==
    IF Len(elems) = 0 \/ left - d.beats = 0 THEN "note" ELSE type

\* the two overrides of the drawn type, in the code's order
OverrideType(type, elems, left, d) ==
    LET t1 == IF Len(elems) = 0 \/ left - d.beats = 0 THEN "note" ELSE type
    IN IF Len(elems) > 0 /\ elems[Len(elems)].type = "rest" THEN "note" ELSE t1

\* the events one iteration of the while loop can push
LoopEvents(left, elems, pitches) ==
    UNION {UNION {LET type == OverrideType(t, elems, left, d)
                  IN IF type = "note"
                     THEN {[type |-> "note", pitch |-> toUpperCase(toUpperCase(p)), beats |-> d.beats]
                             : p \in pitches}
                     ELSE {[type |-> "rest", pitch |-> Undefined, beats |-> d.beats]}
                  : t \in rand(NOTE_OR_REST)}
           : d \in choiceWeighted(Weighted(Choices(left)))}

\* one iteration of while (beatsLeft > 0)
GenLoop ==
    /\ gpc = "loop"
    /\ beatsLeft > 0
    /\ \E ev \in LoopEvents(beatsLeft, elements, PitchChoices(MaxGenPitches)) :
          /\ elements' = Append(elements, ev)
          /\ beatsLeft' = beatsLeft - ev.beats
    /\ UNCHANGED <<gpc, distVars, uiVars>>

\* the loop's exit and return elements
GenReturn ==
    /\ gpc = "loop"
    /\ ~(beatsLeft > 0)
    /\ gpc' = "returned"
    /\ UNCHANGED <<beatsLeft, elements, distVars, uiVars>>

\* every measure generateMeasure() can return with at most `budget` events,
\* its pitches drawn from `pitches`: the loop above, run to its exit
RECURSIVE MeasuresFrom(_, _, _, _)
MeasuresFrom(left, elems, budget, pitches) ==
    IF ~(left > 0) THEN {elems}
    ELSE IF budget = 0 THEN {}
    ELSE UNION {MeasuresFrom(left - ev.beats, Append(elems, ev), budget - 1, pitches)
                  : ev \in LoopEvents(left, elems, pitches)}

generateMeasure(budget, pitches) == MeasuresFrom(MEASURE, <<>>, budget, pitches)

\* generateSequence(bars), bars in {1, 2}: the phrases of at most `budget` events
generateSequence(bars, budget, pitches) ==
    IF bars = 1 THEN {<<m>> : m \in generateMeasure(budget, pitches)}
    ELSE UNION {{<<m1, m2>> : m2 \in generateMeasure(budget - Len(m1), pitches)}
                  : m1 \in generateMeasure(budget - 1, pitches)}

----------------------------------------------------------------------------
(* Values that stand for "not in use" in a specification *)

\* current: null, written as a round without options so that it compares
\* with the rounds newRound stores
Null == [correctIdx |-> -1, options |-> <<>>, audioSeq |-> <<>>]

IdleGen == beatsLeft = 0 /\ elements = <<>> /\ gpc = "idle"
IdleDist == /\ heap = <<>> /\ baseMeasures = <<>> /\ base0 = <<>> /\ variants = <<>>
            /\ pc = "idle" /\ k = 0 /\ pi = 0 /\ pj = 0
IdleUI == /\ state = [bars |-> 1, streak |-> 0, correctCount |-> 0, totalCount |-> 0,
                       current |-> Null]
          /\ screen = "home" /\ cards = <<>> /\ timers = <<>> /\ pending = <<>>
          /\ roundNo = 0 /\ answered = 0

----------------------------------------------------------------------------
(* SpecGen: one call of generateMeasure() *)

InitGen ==
    /\ beatsLeft = MEASURE
    /\ elements = <<>>
    /\ gpc = "loop"
    /\ IdleDist /\ IdleUI

NextGen == GenLoop \/ GenReturn

SpecGen == InitGen /\ [][NextGen]_vars /\ WF_vars(NextGen)

----------------------------------------------------------------------------
(* Event objects and arrays                                                *)
(*                                                                         *)
(* heap is the sequence of the event objects allocated so far; an event is *)
(* referred to by its position in it. A measure is the sequence of the     *)
(* references it holds. map, flat and the spread {...e} build new arrays   *)
(* and new objects; an assignment el.pitch = ... writes the heap.          *)

RECURSIVE Flat(_)
\* measures.flat()
Flat(measures) == IF measures = <<>> THEN <<>> ELSE measures[1] \o Flat(Tail(measures))

measuresToFlat(measures) == Flat(measures)

\* the events a phrase of references holds, read from heap h
Deref(h, measures) ==
    [b \in 1..Len(measures) |-> [e \in 1..Len(measures[b]) |-> h[measures[b][e]]]]

\* the references of a phrase freshly built from the values `phrase`
FreshRefs(phrase, from) ==
    [b \in 1..Len(phrase) |->
        [e \in 1..Len(phrase[b]) |-> from + Len(Flat(SubSeq(phrase, 1, b - 1))) + e]]

\* a slip a copy can have: bar.map(e => e), new arrays over the same objects
cloneMeasuresShared(h, measures) == [heap |-> h, m |-> measures]

\* cloneMeasures: measures.map(bar => bar.map(e => ({...e})))
cloneMeasures(h, measures) ==
    [heap |-> h \o [n \in 1..Len(Flat(measures)) |-> h[Flat(measures)[n]]],
     m |-> FreshRefs(measures, Len(h))]

\* sequencesEqual(a, b), on the events the two phrases hold
sequencesEqual(a, b) ==
    LET fa == measuresToFlat(a)
        fb == measuresToFlat(b)
    IN IF Len(fa) # Len(fb) THEN FALSE
       ELSE \A n \in 1..Len(fa) :
              /\ fa[n].type = fb[n].type
              /\ fa[n].beats = fb[n].beats
              /\ ~(fa[n].type = "note" /\ fa[n].pitch # fb[n].pitch)

\* a slip: the pitch is looked up as written, in upper case
pickNeighborPitchNoLower(pitch) ==
    LET idx == indexOf(PITCHES, pitch)
    IN IF idx = 0 THEN rand(PITCHES)
       ELSE {toUpperCase(n) :
               n \in (IF idx > 1 THEN {PITCHES[idx - 1]} ELSE {})
                     \cup (IF idx < Len(PITCHES) THEN {PITCHES[idx + 1]} ELSE {})}

\* pickNeighborPitch(pitch): the pitches it can return
pickNeighborPitch(pitch) ==
    LET idx == indexOf(PITCHES, toLowerCase(pitch))
    IN IF idx = 0 THEN rand(PITCHES)
       ELSE {toUpperCase(n) :
               n \in (IF idx > 1 THEN {PITCHES[idx - 1]} ELSE {})
                     \cup (IF idx < Len(PITCHES) THEN {PITCHES[idx + 1]} ELSE {})}

\* the repair of both uniqueness passes: the first note of m, scanning the
\* measures and their events in order, gets a neighbour pitch; the heaps
\* that can result
NudgeFirstNote(h, m) ==
    LET all == Flat(m)
        notes == {n \in 1..Len(all) : h[all[n]].type = "note"}
    IN IF notes = {} THEN {h}
       ELSE LET first == CHOOSE n \in notes : \A o \in notes : n <= o
            IN {[h EXCEPT ![all[first]].pitch = p] : p \in pickNeighborPitch(h[all[first]].pitch)}

----------------------------------------------------------------------------
(* makeDistractors(baseMeasures)                                           *)
(*                                                                         *)
(* Each part of the function is an operator from the heap h, the base and  *)
(* the variants pushed so far to the set of outcomes its random draws      *)
(* allow: records [heap, variants] for the three blocks that push a        *)
(* variant, heaps for the iterations of the two uniqueness passes.         *)

\* V1: one note of a copy gets a neighbour pitch
V1Results(h, base, vs) ==
    LET c == cloneMeasures(h, base)
        all == Flat(c.m)
        noteIdxs == {n \in 1..Len(all) : c.heap[all[n]].type = "note"}
    IN IF noteIdxs # {}
       THEN UNION {{[heap |-> [c.heap EXCEPT ![all[idx]].pitch = p],
                     variants |-> Append(vs, c.m)]
                      : p \in pickNeighborPitch(c.heap[all[idx]].pitch)}
                   : idx \in noteIdxs}
       ELSE {[heap |-> c.heap, variants |-> Append(vs, c.m)]}

\* if (el.beats === 2) ... else if (el.beats === 1) ...
Splittable(beats) == beats = HALF \/ beats = QUARTER

\* a slip: the two halves keep the beats of the event they replace
SplitBeatsKept(beats) == beats

\* a slip: a quarter is replaced by two events of 0.25 beats
SplitBeatsQuartered(beats) == IF beats = HALF THEN QUARTER ELSE EIGHTH \div 2

\* { ...el, beats: 1 } for a half, { ...el, beats: 0.5 } for a quarter
SplitBeats(beats) == IF beats = HALF THEN QUARTER ELSE EIGHTH

\* a slip: the scan does not stop at the first event it splits, so the last
\* splittable event of the phrase is the one found
SplitPositionLast(h, m) ==
    LET cand == UNION {{<<b, e>> : e \in {n \in 1..Len(m[b]) : Splittable(h[m[b][n]].beats)}}
                         : b \in 1..Len(m)}
    IN IF cand = {} THEN <<0, 0>>
       ELSE CHOOSE q \in cand : \A r \in cand :
              r[1] < q[1] \/ (r[1] = q[1] /\ r[2] <= q[2])

\* the two loops over bi and ei with !done: the first event to split,
\* <<0, 0>> when there is none
SplitPosition(h, m) ==
    LET cand == UNION {{<<b, e>> : e \in {n \in 1..Len(m[b]) : Splittable(h[m[b][n]].beats)}}
                         : b \in 1..Len(m)}
    IN IF cand = {} THEN <<0, 0>>
       ELSE CHOOSE q \in cand : \A r \in cand :
              q[1] < r[1] \/ (q[1] = r[1] /\ q[2] <= r[2])

\* V2: the first half or quarter of a copy is split in two
V2Results(h, base, vs) ==
    LET c == cloneMeasures(h, base)
        at == SplitPosition(c.heap, c.m)
    IN IF at = <<0, 0>>
       THEN {[heap |-> c.heap, variants |-> Append(vs, c.m)]}
       ELSE LET bi == at[1]
                ei == at[2]
                el == c.heap[c.m[bi][ei]]
                repl == <<[el EXCEPT !.beats = SplitBeats(el.beats)],
                          [el EXCEPT !.beats = SplitBeats(el.beats)]>>
                n == Len(c.heap)
            IN {[heap |-> c.heap \o repl,
                 \* m[bi].splice(ei, 1, ...repl)
                 variants |-> Append(vs,
                    [c.m EXCEPT ![bi] = SubSeq(c.m[bi], 1, ei - 1)
                                        \o <<n + 1, n + 2>>
                                        \o SubSeq(c.m[bi], ei + 1, Len(c.m[bi]))])]}

\* V3: two adjacent events of the first bar that holds two are swapped
V3Results(h, base, vs) ==
    LET c == cloneMeasures(h, base)
        bars == {b \in 1..Len(c.m) : Len(c.m[b]) >= 2}
    IN IF bars = {}
       THEN {[heap |-> c.heap, variants |-> Append(vs, c.m)]}
       ELSE LET bi == CHOOSE b \in bars : \A o \in bars : b <= o
            IN {[heap |-> c.heap,
                 variants |-> Append(vs,
                    [c.m EXCEPT ![bi] = [c.m[bi] EXCEPT ![i] = c.m[bi][i + 1],
                                                        ![i + 1] = c.m[bi][i]]])]
                  : i \in 1..(Len(c.m[bi]) - 1)}

\* one iteration of for (k ...): variants[k] is repaired when it equals the base
UniqBaseResults(h, base, vs, n) ==
    IF sequencesEqual(Deref(h, vs[n]), Deref(h, base))
    THEN NudgeFirstNote(h, vs[n])
    ELSE {h}

\* one iteration of for (i ...) for (j = i+1 ...): variants[j] is repaired
\* when it equals variants[i]
UniqPairsResults(h, vs, i, j) ==
    IF sequencesEqual(Deref(h, vs[i]), Deref(h, vs[j]))
    THEN NudgeFirstNote(h, vs[j])
    ELSE {h}

\* the pair the two loops of the second pass reach after <<i, j>>, over n
\* variants; <<n + 1, n + 1>> when both loops have ended
NextPair(i, j, n) ==
    IF j + 1 <= n THEN <<i, j + 1>>
    ELSE IF i + 2 <= n THEN <<i + 1, i + 2>>
    ELSE <<n + 1, n + 1>>

RECURSIVE UniqBaseLoop(_, _, _)
\* the first pass from k on, over a set S of outcomes
UniqBaseLoop(S, base, n) ==
    IF \A r \in S : ~(n <= Len(r.variants)) THEN S
    ELSE UniqBaseLoop(
           UNION {{[heap |-> h2, variants |-> r.variants]
                     : h2 \in UniqBaseResults(r.heap, base, r.variants, n)} : r \in S},
           base, n + 1)

RECURSIVE UniqPairsLoop(_, _, _)
\* the second pass from the pair <<i, j>> on, over a set S of outcomes
UniqPairsLoop(S, i, j) ==
    IF \A r \in S : ~(i <= Len(r.variants) /\ j <= Len(r.variants)) THEN S
    ELSE UniqPairsLoop(
           UNION {{[heap |-> h2, variants |-> r.variants]
                     : h2 \in UniqPairsResults(r.heap, r.variants, i, j)} : r \in S},
           NextPair(i, j, 3)[1], NextPair(i, j, 3)[2])

\* makeDistractors(baseMeasures) run from heap h: the heaps and variants it
\* can return
makeDistractors(h, base) ==
    LET s1 == V1Results(h, base, <<>>)
        s2 == UNION {V2Results(r.heap, base, r.variants) : r \in s1}
        s3 == UNION {V3Results(r.heap, base, r.variants) : r \in s2}
    IN UniqPairsLoop(UniqBaseLoop(s3, base, 1), 1, 2)

----------------------------------------------------------------------------
(* Spec: one call of makeDistractors on a phrase of generateSequence, a    *)
(* step for each of its blocks and loop iterations                         *)

V1 ==
    /\ pc = "v1"
    /\ \E r \in V1Results(heap, baseMeasures, variants) :
          heap' = r.heap /\ variants' = r.variants
    /\ pc' = "v2"
    /\ UNCHANGED <<baseMeasures, base0, k, pi, pj, genVars, uiVars>>

V2 ==
    /\ pc = "v2"
    /\ \E r \in V2Results(heap, baseMeasures, variants) :
          heap' = r.heap /\ variants' = r.variants
    /\ pc' = "v3"
    /\ UNCHANGED <<baseMeasures, base0, k, pi, pj, genVars, uiVars>>

V3 ==
    /\ pc = "v3"
    /\ \E r \in V3Results(heap, baseMeasures, variants) :
          heap' = r.heap /\ variants' = r.variants
    /\ pc' = "uniqBase"
    /\ k' = 1
    /\ UNCHANGED <<baseMeasures, base0, pi, pj, genVars, uiVars>>

\* after the last iteration the second pass starts with the pair (i, j)
UniqBase ==
    /\ pc = "uniqBase"
    /\ k <= Len(variants)
    /\ heap' \in UniqBaseResults(heap, baseMeasures, variants, k)
    /\ k' = k + 1
    /\ IF k + 1 <= Len(variants)
       THEN UNCHANGED <<pc, pi, pj>>
       ELSE pc' = "uniqPairs" /\ pi' = 1 /\ pj' = 2
    /\ UNCHANGED <<baseMeasures, base0, variants, genVars, uiVars>>

UniqPairs ==
    /\ pc = "uniqPairs"
    /\ pi <= Len(variants) /\ pj <= Len(variants)
    /\ heap' \in UniqPairsResults(heap, variants, pi, pj)
    /\ pi' = NextPair(pi, pj, Len(variants))[1]
    /\ pj' = NextPair(pi, pj, Len(variants))[2]
    /\ UNCHANGED <<baseMeasures, base0, variants, pc, k, genVars, uiVars>>

\* return variants
Return ==
    /\ pc = "uniqPairs"
    /\ ~(pi <= Len(variants))
    /\ pc' = "done"
    /\ UNCHANGED <<heap, baseMeasures, base0, variants, k, pi, pj, genVars, uiVars>>

Init ==
    /\ \E bars \in {1, 2} :
         \E phrase \in generateSequence(bars, MaxPhraseEvents, PitchChoices(MaxPhrasePitches)) :
           /\ heap = Flat(phrase)
           /\ baseMeasures = FreshRefs(phrase, 0)
           /\ base0 = phrase
    /\ variants = <<>>
    /\ pc = "v1"
    /\ k = 0 /\ pi = 0 /\ pj = 0
    /\ IdleGen /\ IdleUI

Next == V1 \/ V2 \/ V3 \/ UniqBase \/ UniqPairs \/ Return

Spec == Init /\ [][Next]_vars

\* the events of the canonical phrase and of the variants, as the caller reads them
Base == Deref(heap, baseMeasures)
Variant(n) == Deref(heap, variants[n])

----------------------------------------------------------------------------
(* Claims about generateMeasure, checked under SpecGen *)

\* C2: for every outcome of the random choices generateMeasure() terminates,
\* and the beats of the measure it returns sum to exactly 4
C2_MeasureSum ==
    /\ <>(gpc = "returned")
    /\ [](gpc = "returned" => SumBeats(elements) = MEASURE)
    /\ [][beatsLeft' # beatsLeft => (beatsLeft' < beatsLeft /\ beatsLeft' >= 0)]_vars

\* a returned measure of more than one event, eighths among them
C2_Witness ==
    /\ gpc = "returned" /\ Len(elements) >= 3
    /\ \E n \in 1..Len(elements) : elements[n].beats = EIGHTH

\* C3: the first event of a returned measure is never a rest, and no two
\* adjacent events of it are both rests
C3_NoRestViolation ==
    gpc = "returned" =>
        /\ elements[1].type # "rest"
        /\ \A n \in 1..(Len(elements) - 1) :
              ~(elements[n].type = "rest" /\ elements[n+1].type = "rest")

\* a returned measure that holds two rests
C3_Witness ==
    /\ gpc = "returned"
    /\ Cardinality({n \in 1..Len(elements) : elements[n].type = "rest"}) >= 2

----------------------------------------------------------------------------
(* Claims about makeDistractors, checked under Spec *)

\* two phrases differ under sequencesEqual
Differ(a, b) == ~sequencesEqual(a, b)

\* C1: the four options of a round, the canonical phrase and the three
\* phrases makeDistractors returns, are pairwise distinct under sequencesEqual
C1_OptionsDistinct ==
    pc = "done" =>
        /\ \A n \in 1..3 : Differ(Variant(n), Base)
        /\ \A n \in 1..3 : \A m \in (n + 1)..3 : Differ(Variant(n), Variant(m))

\* C4: makeDistractors leaves the canonical phrase as it was passed: the same
\* measures holding the same events (kind, beats, pitch) in the same order,
\* at every point of the call and at its return
C4_BaseNotMutated == Base = base0

\* the call has returned, and a repair pass has moved the swap variant's
\* first note off the pitch the canonical phrase has there
C4_Witness ==
    /\ pc = "done"
    /\ Len(Flat(base0)) >= 2
    /\ Flat(Variant(3))[1].pitch # Flat(base0)[1].pitch
    /\ Flat(Variant(3))[1].pitch # Flat(base0)[2].pitch

\* the positions of the scale at which two pitches stand, 0 when not in it
ScaleIndex(p) == indexOf(UPPER, p)

\* C5: the melodic-nudge variant has the kinds and beats of the canonical
\* phrase at every position, and differs from it in pitch at exactly one
\* note, whose new pitch is one scale step above or below the old one
C5_V1OneStep ==
    pc = "done" =>
        LET fa == Flat(base0)
            fv == Flat(Variant(1))
            changed == {n \in 1..Len(fa) : fv[n].pitch # fa[n].pitch}
        IN /\ Len(fv) = Len(fa)
           /\ \A n \in 1..Len(fa) : fv[n].type = fa[n].type /\ fv[n].beats = fa[n].beats
           /\ Cardinality(changed) = 1
           /\ \A n \in changed :
                /\ fa[n].type = "note"
                /\ ScaleIndex(fv[n].pitch) \in 1..Len(PITCHES)
                /\ ScaleIndex(fv[n].pitch) - ScaleIndex(fa[n].pitch) \in {-1, 1}

\* the call has returned with the top pitch C5 nudged to B4
C5_Witness ==
    /\ pc = "done"
    /\ \E n \in 1..Len(Flat(base0)) :
         Flat(base0)[n].pitch = "C5" /\ Flat(Variant(1))[n].pitch = "B4"

\* C6: the rhythmic-split variant has as many measures as the canonical
\* phrase, and each of them still sums to 4 beats
C6_V2MeasureSums ==
    pc = "done" =>
        /\ Len(Variant(2)) = Len(base0)
        /\ \A b \in 1..Len(Variant(2)) : SumBeats(Variant(2)[b]) = MEASURE

\* the call has returned with a two-bar phrase whose second bar was split
C6_Witness ==
    /\ pc = "done"
    /\ Len(base0) = 2
    /\ Len(Variant(2)[2]) = Len(base0[2]) + 1

\* durToVex(d): the VexFlow code, or the error it throws
durToVex(d) == IF d = WHOLE THEN "w"
               ELSE IF d = HALF THEN "h"
               ELSE IF d = QUARTER THEN "q"
               ELSE IF d = EIGHTH THEN "8"
               ELSE "Unsupported duration"

\* C8: every event of the canonical phrase and of the three variants has one
\* of the four supported beats, so durToVex does not throw on any of them
C8_DurationsSupported ==
    pc = "done" =>
        /\ \A ev \in Range(Flat(Base)) : durToVex(ev.beats) # "Unsupported duration"
        /\ \A n \in 1..Len(variants) :
             \A ev \in Range(Flat(Variant(n))) : durToVex(ev.beats) # "Unsupported duration"

\* the call has returned, and the split variant holds eighths made of a quarter
C8_Witness ==
    /\ pc = "done"
    /\ \A ev \in Range(Flat(base0)) : ev.beats # EIGHTH
    /\ \E ev \in Range(Flat(Variant(2))) : ev.beats = EIGHTH

\* the events of the canonical phrase whose beats are 2 or 1, as <<bar, event>>
C9_Halvable ==
    UNION {{<<b, e>> : e \in {n \in 1..Len(base0[b]) : base0[b][n].beats \in {HALF, QUARTER}}}
             : b \in 1..Len(base0)}

\* C9: the split variant is the canonical phrase with its first event of 2
\* or 1 beats, scanning the measures and their events in order, replaced in
\* place by two events of half the beats and the same kind and pitch; every
\* other event keeps its kind, beats and place, and without such an event
\* the rhythm is that of the canonical phrase
C9_V2FirstSplit ==
    pc = "done" =>
        LET v == Variant(2)
            rhythm(m) == [n \in 1..Len(m) |-> <<m[n].type, m[n].beats>>]
            halvable == C9_Halvable
        IN IF halvable = {}
           THEN /\ Len(v) = Len(base0)
                /\ \A b \in 1..Len(v) : rhythm(v[b]) = rhythm(base0[b])
           ELSE LET at == CHOOSE q \in halvable : \A r \in halvable :
                            q[1] < r[1] \/ (q[1] = r[1] /\ q[2] <= r[2])
                    old == base0[at[1]]
                    new == v[at[1]]
                IN /\ Len(v) = Len(base0)
                   /\ \A b \in 1..Len(v) : b # at[1] => rhythm(v[b]) = rhythm(base0[b])
                   /\ Len(new) = Len(old) + 1
                   /\ \A e \in 1..(at[2] - 1) : rhythm(new)[e] = rhythm(old)[e]
                   /\ \A e \in {at[2], at[2] + 1} :
                        /\ new[e].type = old[at[2]].type
                        /\ new[e].pitch = old[at[2]].pitch
                        /\ 2 * new[e].beats = old[at[2]].beats
                   /\ \A e \in (at[2] + 1)..Len(old) : rhythm(new)[e + 1] = rhythm(old)[e]

\* the call has returned; the canonical phrase opens with a quarter and holds
\* a half after it, and the quarter is the one that was split
C9_Witness ==
    /\ pc = "done"
    /\ base0[1][1].beats = QUARTER
    /\ \E e \in 2..Len(base0[1]) : base0[1][e].beats = HALF
    /\ Variant(2)[1][1].beats = EIGHTH /\ Variant(2)[1][2].beats = EIGHTH

----------------------------------------------------------------------------
(* SpecUI: the page. Each handler runs to its end or to its await; the     *)
(* 900 ms timers and the suspended start handlers are the steps between.   *)
(* heap, baseMeasures and variants hold newRound's objects and its locals  *)
(* baseMeasures and distractors as its last call left them; the objects of *)
(* earlier rounds are unreachable and dropped. A button or card is clicked *)
(* only while its screen is the active one. Audio is not modelled.         *)


\* indices.sort(() => Math.random() - 0.5): the comparator is inconsistent,
\* so the order is whatever the engine's sort makes of it, a permutation
ShuffledIndices ==
    {[n \in 1..4 |-> f[n] - 1] : f \in Permutations(1..4)}

\* a slip: the first shuffled index taken for the position of index 0
CorrectIdxFirst(indices) == indices[1]

\* const correctIdx = indices.indexOf(0), 0-based
CorrectIdx(indices) == indexOf(indices, 0) - 1

\* newRound(), called with state st: the round is generated, the options
\* shuffled and stored, the option cards rebuilt
NewRound(st) ==
    \E phrase \in generateSequence(st.bars, st.bars + MaxRoundExtraEvents, PitchChoices(MaxRoundPitches)) :
      \E r \in makeDistractors(Flat(phrase), FreshRefs(phrase, 0)) :
        \E indices \in ShuffledIndices :
          LET base == FreshRefs(phrase, 0)
              options == <<base>> \o r.variants
              shuffled == [n \in 1..Len(indices) |-> options[indices[n] + 1]]
          IN /\ state' = [st EXCEPT !.current =
                            [correctIdx |-> CorrectIdx(indices),
                             options |-> shuffled,
                             audioSeq |-> measuresToFlat(base)]]
             /\ heap' = r.heap
             /\ baseMeasures' = base
             /\ variants' = r.variants
             /\ cards' = [n \in 1..Len(shuffled) |-> ""]
             /\ roundNo' = roundNo + 1
             /\ answered' = 0

\* start1 / start2 click, up to await ensureAudio()
StartClick(bars) ==
    /\ screen = "home"
    /\ pending' = Append(pending, bars)
    /\ UNCHANGED <<state, screen, cards, timers, roundNo, answered,
                   heap, baseMeasures, variants, base0, pc, k, pi, pj, genVars>>

Start1Click == StartClick(1)
Start2Click == StartClick(2)

\* a start handler resumes after its await: state.bars, show("game"),
\* newRound(). A handler that found the audio loaded resumes before one
\* still loading it, so any suspended handler may be the next
StartResume ==
    \E n \in 1..Len(pending) :
      /\ pending' = SubSeq(pending, 1, n - 1) \o SubSeq(pending, n + 1, Len(pending))
      /\ screen' = "game"
      /\ NewRound([state EXCEPT !.bars = pending[n]])
      /\ UNCHANGED <<timers, base0, pc, k, pi, pj, genVars>>

\* homeBtn click: show("home")
HomeClick ==
    /\ screen = "game"
    /\ screen' = "home"
    /\ UNCHANGED <<state, cards, timers, pending, roundNo, answered,
                   heap, baseMeasures, variants, base0, pc, k, pi, pj, genVars>>

\* handleAnswer(i, cardEl), i 0-based
handleAnswer(i) ==
    LET isCorrect == (i = state.current.correctIdx)
    IN /\ state' = [state EXCEPT
                      !.totalCount = @ + 1,
                      !.correctCount = IF isCorrect THEN @ + 1 ELSE @,
                      !.streak = IF isCorrect THEN @ + 1 ELSE 0]
       /\ cards' = [cards EXCEPT ![i + 1] = IF isCorrect THEN "correct" ELSE "incorrect"]
       \* setTimeout(() => { stopAllAudio(); newRound(); }, 900)
       /\ timers' = Append(timers, roundNo)
       /\ answered' = answered + 1

\* the click listener of option card i
CardClick ==
    /\ screen = "game"
    /\ state.current # Null
    /\ \E i \in 0..(Len(cards) - 1) : handleAnswer(i)
    /\ UNCHANGED <<screen, pending, roundNo,
                   heap, baseMeasures, variants, base0, pc, k, pi, pj, genVars>>

\* a next-round timer fires; timers of equal delay fire in the order set
TimerFire ==
    /\ timers # <<>>
    /\ timers' = Tail(timers)
    /\ NewRound(state)
    /\ UNCHANGED <<screen, pending, base0, pc, k, pi, pj, genVars>>

InitUI == IdleGen /\ IdleDist /\ IdleUI

\* rounds begun or still to begin; a click on a start button or on a card
\* sets one more to begin, and the model stops the clicks at MaxRounds
RoundsInSight == roundNo + Len(timers) + Len(pending)

NextUI ==
    \/ RoundsInSight < MaxRounds /\ Len(pending) < MaxSuspended /\ Start1Click
    \/ RoundsInSight < MaxRounds /\ Len(pending) < MaxSuspended /\ Start2Click
    \/ StartResume
    \/ HomeClick
    \/ RoundsInSight < MaxRounds /\ CardClick
    \/ TimerFire

SpecUI == InitUI /\ [][NextUI]_vars

\* SpecRound: the first round of a session, from the click on a start button
\* to the answers given before its timer fires
NextRound ==
    \/ RoundsInSight = 0 /\ Start1Click
    \/ RoundsInSight = 0 /\ Start2Click
    \/ StartResume
    \/ RoundsInSight < MaxRounds /\ CardClick

SpecRound == InitUI /\ [][NextRound]_vars

----------------------------------------------------------------------------
(* Claims about the round lifecycle, checked under SpecRound and SpecUI *)

C10_RoundsSequential ==
    /\ answered <= 1
    /\ Len(timers) <= 1
    /\ \A n \in 1..Len(timers) : timers[n] = roundNo

====
